---- MODULE Spec2Model ----
(***************************************************************************)
(* Wheat disease knowledge base (app/rdf_knowledge.py) and rule-based      *)
(* reasoner (app/reasoner.py).                                             *)
(*                                                                         *)
(* Strings are sequences of one-character strings, so that lower(),        *)
(* strip(), split("(") and the `in` substring test are computed and not    *)
(* assumed.  The graph is the sequence of its rdfs:label triples in the    *)
(* order the store iterates them, the set of nodes typed wheat:Disease and *)
(* the hasSymptom triples of every node.  Confidence values are integers   *)
(* in thousandths (0.7 is 700).                                            *)
(***************************************************************************)
EXTENDS Integers, Sequences, FiniteSets, TLC

VARIABLES labels, diseases, hasSymptom, op, arg_label, arg_confidence,
          arg_text_symptoms, ret_uri, result, ret_labels,
          ttl_file, startup, llm_env, explained, flattened, pipeline,
          DISEASE_LABELS, treatment_graph

\* The variables of the other components, which the calls on the knowledge
\* base and the reasoner leave alone.
rest == <<flattened, pipeline, DISEASE_LABELS, treatment_graph>>

aux == <<ret_labels, ttl_file, startup, llm_env, explained, rest>>

vars == <<labels, diseases, hasSymptom, op, arg_label, arg_confidence,
          arg_text_symptoms, ret_uri, result, aux>>

\* Python's None.
NoneVal == "None"

(***************************************************************************)
(* Bounds and input pools                                                  *)
(***************************************************************************)

\* Largest number of rdfs:label triples of a store of the resolver model.
MaxLabels == 2

\* Largest number of text symptoms handed to reason.
MaxTextSymptoms == 2

\* Rows of the treatments CSV.
MaxRows == 2

\* Runs of the update script.
MaxRuns == 2

\* Nodes of the resolver model's graphs.
Entities == {"e1", "e2"}

\* Symptom nodes of the reasoner model's graphs.
SymptomNodes == {"s1", "s2"}

Nodes == Entities \cup SymptomNodes

\* Labels of the disease node of the reasoner model: "a", "a(b".
DiseaseLabelPool == { <<"a">>, <<"a", "(", "b">> }

\* Labels of the symptom nodes of the reasoner model: "ab", "Bb", and the
\* empty literal "" on the second node.
SymptomLabelPool == { <<"a", "b">>, <<"B", "b">> }

\* Disease labels handed to reason: "A", "Bb", "bb(".
ReasonQueryPool == { <<"A">>, <<"B", "b">>, <<"b", "b", "(">> }

\* Text symptoms handed to reason: "A", "abb".
TextPool == { <<"A">>, <<"a", "b", "b">> }

\* Confidence values handed to reason, in thousandths: -0.01, 0.39, 0.4,
\* 0.69, 0.699, 0.7 and 1.01.
ConfidencePool == {-10, 390, 400, 690, 699, 700, 1010}

\* The label triples the graphs of the call-sequence model are made of:
\* "a" and "a(b" on the first node, "a" and "b(" on the second.
CallsTriples ==
    { [uri |-> "e1", label |-> <<"a">>],
      [uri |-> "e1", label |-> <<"a", "(", "b">>],
      [uri |-> "e2", label |-> <<"a">>],
      [uri |-> "e2", label |-> <<"b", "(">>] }

\* Disease labels of the calls of the call-sequence model: "A", "b(a".
CallsQueryPool == { <<"A">>, <<"b", "(", "a">> }

\* Labels the graphs of the resolver model draw from:
\* "a", "A ", "a(b", "ab", "aba", "b", " ".
LabelPool ==
    { <<"a">>, <<"A", " ">>, <<"a", "(", "b">>, <<"a", "b">>,
      <<"a", "b", "a">>, <<"b">>, <<" ">> }

\* Queries: "", " ", "a", " A", "A(b", "A(", "ab", "aba", "b", "(a".
QueryPool ==
    { <<>>, <<" ">>, <<"a">>, <<" ", "A">>, <<"A", "(", "b">>, <<"A", "(">>,
      <<"a", "b">>, <<"a", "b", "a">>, <<"b">>, <<"(", "a">> }

(***************************************************************************)
(* String functions                                                        *)
(***************************************************************************)

\* str.lower() on one character.
LowerChar(c) ==
    IF c = "A" THEN "a" ELSE IF c = "B" THEN "b"
    ELSE IF c = "H" THEN "h" ELSE c

\* str.lower()
Lower(s) == [i \in 1..Len(s) |-> LowerChar(s[i])]

IsSpace(c) == c = " "

\* str.strip(): drop leading and trailing whitespace.
Strip(s) ==
    LET nonspace == {i \in 1..Len(s) : ~IsSpace(s[i])}
    IN  IF nonspace = {} THEN <<>>
        ELSE LET first == CHOOSE i \in nonspace : \A j \in nonspace : i <= j
                 last  == CHOOSE i \in nonspace : \A j \in nonspace : i >= j
             IN  SubSeq(s, first, last)

\* s.split("(")[0]: the text before the first "(", all of s when it has none.
SplitParenFirst(s) ==
    LET parens == {i \in 1..Len(s) : s[i] = "("}
    IN  IF parens = {} THEN s
        ELSE LET first == CHOOSE i \in parens : \A j \in parens : i <= j
             IN  SubSeq(s, 1, first - 1)

\* Python's `needle in hay` on strings; the empty string is in every string.
Contains(needle, hay) ==
    \E k \in 0..(Len(hay) - Len(needle)) :
        SubSeq(hay, k + 1, k + Len(needle)) = needle

\* label.lower().strip()
\* A mutation of Norm: the string is lowered and not stripped.
NormNoStrip(s) == Lower(s)

Norm(s) == Strip(Lower(s))

\* norm.split("(")[0].strip()
BaseOf(norm) == Strip(SplitParenFirst(norm))

(***************************************************************************)
(* WheatKnowledgeBase.get_disease_uri_by_label                             *)
(***************************************************************************)

\* is_disease(uri): (uri, rdf:type, wheat:Disease) in graph.
IsDisease(uri) == uri \in diseases

\* The first index of the label iteration that satisfies P, 0 when none does.
FirstIndex(hits) ==
    IF hits = {} THEN 0
    ELSE CHOOSE i \in hits : \A j \in hits : i <= j

UriAt(i) == IF i = 0 THEN NoneVal ELSE labels[i].uri

\* A mutation of Step1Exact: the type check of the first loop is dropped.
Step1ExactNoTypeCheck(label_lower) ==
    LET Hit(i) == Norm(labels[i].label) = label_lower
    IN  UriAt(FirstIndex({i \in DOMAIN labels : Hit(i)}))

\* First loop: exact match with type verification.
Step1Exact(label_lower) ==
    LET Hit(i) == Norm(labels[i].label) = label_lower /\ IsDisease(labels[i].uri)
    IN  UriAt(FirstIndex({i \in DOMAIN labels : Hit(i)}))

\* Second loop: match on the text before the first "(", entered only when
\* the query's base is non-empty and differs from the query.
Step2Base(label_lower) ==
    LET label_base == BaseOf(label_lower)
        Hit(i) == /\ IsDisease(labels[i].uri)
                  /\ BaseOf(Norm(labels[i].label)) = label_base
    IN  IF label_base # <<>> /\ label_base # label_lower
        THEN UriAt(FirstIndex({i \in DOMAIN labels : Hit(i)}))
        ELSE NoneVal

\* A mutation of Step3Score: the length of the containing (longer) string.
Step3ScoreContaining(label_lower, disease_label) ==
    IF Contains(label_lower, disease_label)
    THEN Len(disease_label)
    ELSE Len(label_lower)

\* The score of a hit of the third loop.
Step3Score(label_lower, disease_label) ==
    IF Contains(label_lower, disease_label)
    THEN Len(label_lower)
    ELSE Len(disease_label)

\* A mutation of Step3Better: a later hit of equal score replaces the best.
Step3BetterOrEqual(score, best_score) == score >= best_score

\* `if score > best_score`: when a hit replaces the best one so far.
Step3Better(score, best_score) == score > best_score

\* Third loop from index i on, with the best match and score so far; an
\* equal label returns at once.
RECURSIVE Step3Loop(_, _, _, _)
Step3Loop(label_lower, i, best_match, best_score) ==
    IF i > Len(labels) THEN best_match
    ELSE LET s == labels[i].uri
             disease_label == Norm(labels[i].label)
         IN  IF ~IsDisease(s)
             THEN Step3Loop(label_lower, i + 1, best_match, best_score)
             ELSE IF Contains(label_lower, disease_label)
                       \/ Contains(disease_label, label_lower)
             THEN IF disease_label = label_lower THEN s
                  ELSE LET score == Step3Score(label_lower, disease_label)
                       IN  IF Step3Better(score, best_score)
                           THEN Step3Loop(label_lower, i + 1, s, score)
                           ELSE Step3Loop(label_lower, i + 1, best_match, best_score)
             ELSE Step3Loop(label_lower, i + 1, best_match, best_score)

\* best_match = None, best_score = 0, then the third loop.
Step3Partial(label_lower) == Step3Loop(label_lower, 1, NoneVal, 0)

\* Fourth loop: exact match without the type check.
Step4Untyped(label_lower) ==
    LET Hit(i) == Norm(labels[i].label) = label_lower
    IN  UriAt(FirstIndex({i \in DOMAIN labels : Hit(i)}))

\* A mutation of GetDiseaseUriByLabel: the exact-match loop is skipped.
GetDiseaseUriByLabelNoExact(label) ==
    LET label_lower == Norm(label)
        r2 == Step2Base(label_lower)
        r3 == Step3Partial(label_lower)
    IN  IF r2 # NoneVal THEN r2
        ELSE IF r3 # NoneVal THEN r3
        ELSE Step4Untyped(label_lower)

\* get_disease_uri_by_label(label)
GetDiseaseUriByLabel(label) ==
    LET label_lower == Norm(label)
        r1 == Step1Exact(label_lower)
        r2 == Step2Base(label_lower)
        r3 == Step3Partial(label_lower)
    IN  IF r1 # NoneVal THEN r1
        ELSE IF r2 # NoneVal THEN r2
        ELSE IF r3 # NoneVal THEN r3
        ELSE Step4Untyped(label_lower)

(***************************************************************************)
(* WheatKnowledgeBase.get_all_disease_labels                               *)
(***************************************************************************)

\* [str(o) for _, _, o in g.triples((uri, RDFS.label, None))]
RECURSIVE LabelsOfFrom(_, _)
LabelsOfFrom(uri, i) ==
    IF i > Len(labels) THEN <<>>
    ELSE IF labels[i].uri = uri
         THEN <<labels[i].label>> \o LabelsOfFrom(uri, i + 1)
         ELSE LabelsOfFrom(uri, i + 1)

LabelsOf(uri) == LabelsOfFrom(uri, 1)

\* "(" not in lbl
NoParen(lbl) == \A i \in 1..Len(lbl) : lbl[i] # "("

\* [lbl for lbl in all_labels if "(" not in lbl]
RECURSIVE FilterNoParen(_)
FilterNoParen(lbls) ==
    IF lbls = <<>> THEN <<>>
    ELSE IF NoParen(Head(lbls))
         THEN <<Head(lbls)>> \o FilterNoParen(Tail(lbls))
         ELSE FilterNoParen(Tail(lbls))

\* The code point of a character.
CharCode(c) ==
    CASE c = " " -> 32 [] c = "(" -> 40 [] c = "A" -> 65 [] c = "B" -> 66
      [] c = "H" -> 72 [] c = "a" -> 97 [] c = "b" -> 98 [] c = "e" -> 101
      [] c = "h" -> 104 [] c = "l" -> 108 [] c = "t" -> 116
      [] c = "y" -> 121 [] OTHER -> 99

\* s < t on Python strings: lexicographic by code point, a proper prefix
\* first.
StrLess(s, t) ==
    \E k \in 1..Len(t) :
        /\ \A j \in 1..(k - 1) : j <= Len(s) /\ s[j] = t[j]
        /\ \/ Len(s) = k - 1
           \/ Len(s) >= k /\ CharCode(s[k]) < CharCode(t[k])

\* list.insert at the sorted position.
RECURSIVE InsertSorted(_, _)
InsertSorted(x, sorted) ==
    IF sorted = <<>> THEN <<x>>
    ELSE IF StrLess(x, Head(sorted))
         THEN <<x>> \o sorted
         ELSE <<Head(sorted)>> \o InsertSorted(x, Tail(sorted))

\* sorted(list)
RECURSIVE SortedList(_)
SortedList(list) ==
    IF list = <<>> THEN <<>>
    ELSE InsertSorted(Head(list), SortedList(Tail(list)))

\* The elements of a set in the order a Python set iterates them, which is
\* some order: sorted() erases it.
RECURSIVE SetAsList(_)
SetAsList(S) ==
    IF S = {} THEN <<>>
    ELSE LET x == CHOOSE y \in S : TRUE
         IN  <<x>> \o SetAsList(S \ {x})

\* set(list)
SetOf(list) == {list[i] : i \in DOMAIN list}

\* A mutation of SortedSet: sorted(labels), the duplicates are kept.
SortedNoDedup(list) == SortedList(list)

\* sorted(set(labels))
SortedSet(list) == SortedList(SetAsList(SetOf(list)))

\* A mutation of PreferredLabel: always the first label found.
PreferredLabelFirst(disease_labels) == disease_labels[1]

\* The label an entity contributes: the first without parentheses, else the
\* first.
PreferredLabel(disease_labels) ==
    LET labels_without_parens == FilterNoParen(disease_labels)
    IN  IF labels_without_parens # <<>>
        THEN labels_without_parens[1]
        ELSE disease_labels[1]

\* The loop over the Disease-typed subjects, each visited once (seen_uris):
\* the list `labels` it builds.
RECURSIVE CollectLabels(_)
CollectLabels(subjects) ==
    IF subjects = <<>> THEN <<>>
    ELSE LET disease_labels == LabelsOf(Head(subjects))
         IN  IF disease_labels # <<>>
             THEN <<PreferredLabel(disease_labels)>> \o CollectLabels(Tail(subjects))
             ELSE CollectLabels(Tail(subjects))

\* get_all_disease_labels()
GetAllDiseaseLabels == SortedSet(CollectLabels(SetAsList(diseases)))

(***************************************************************************)
(* WheatKnowledgeBase.get_disease_facts and to_dict                        *)
(***************************************************************************)

\* labels_without_parens[0] if there is one, else all_labels[0].
PreferNoParen(all_labels) ==
    LET labels_without_parens == FilterNoParen(all_labels)
    IN  IF labels_without_parens # <<>>
        THEN labels_without_parens[1]
        ELSE all_labels[1]

\* for lbl in all_labels: if lbl.lower().strip() == disease_label_lower
RECURSIVE FirstEqualLabel(_, _)
FirstEqualLabel(lbls, disease_label_lower) ==
    IF lbls = <<>> THEN <<>>
    ELSE IF Norm(Head(lbls)) = disease_label_lower
         THEN <<Head(lbls)>>
         ELSE FirstEqualLabel(Tail(lbls), disease_label_lower)

\* The display label of the facts: the label equal to the input, else one
\* without parentheses, else the first; the node name when it has no label.
ChooseLabel(uri, disease_label) ==
    LET all_labels == LabelsOf(uri)
    IN  IF all_labels # <<>>
        THEN IF disease_label # <<>>
             THEN LET eq == FirstEqualLabel(all_labels, Norm(disease_label))
                  IN  IF eq # <<>> THEN eq[1] ELSE PreferNoParen(all_labels)
             ELSE PreferNoParen(all_labels)
        ELSE <<uri>>

\* g.value(node, RDFS.label): a label of the node, <<>> standing for None.
ValueLabel(node) ==
    LET ls == LabelsOf(node)
    IN  IF ls = <<>> THEN <<>> ELSE <<ls[1]>>

\* for _, _, sym_uri in g.triples((uri, hasSymptom, None)):
\*     lab = g.value(sym_uri, RDFS.label); if lab: symptoms.append(str(lab))
\* An empty literal is falsy and is skipped like a missing one.
RECURSIVE SymptomsFrom(_)
SymptomsFrom(sym_uris) ==
    IF sym_uris = <<>> THEN <<>>
    ELSE LET lab == ValueLabel(Head(sym_uris))
         IN  IF lab # <<>> /\ lab[1] # <<>>
             THEN <<lab[1]>> \o SymptomsFrom(Tail(sym_uris))
             ELSE SymptomsFrom(Tail(sym_uris))

\* DiseaseFacts of a resolved node.  The graphs of the model hold label,
\* type and hasSymptom triples only, so the pathogen is None and the other
\* relation lists are empty.
FactsOf(uri, disease_label) ==
    [ uri         |-> uri,
      label       |-> ChooseLabel(uri, disease_label),
      pathogen    |-> NoneVal,
      symptoms    |-> SymptomsFrom(hasSymptom[uri]),
      treatments  |-> <<>>,
      conditions  |-> <<>>,
      plant_parts |-> <<>>,
      hosts       |-> <<>>,
      notes       |-> <<>> ]

\* get_disease_facts(disease_label): None when the label resolves to nothing.
NoFacts == [uri |-> NoneVal]

GetDiseaseFacts(disease_label) ==
    LET uri == GetDiseaseUriByLabel(disease_label)
    IN  IF uri = NoneVal THEN NoFacts ELSE FactsOf(uri, disease_label)

IsNoneFacts(facts) == facts.uri = NoneVal

\* The empty dict {}.
EmptyDict == <<>>

\* WheatKnowledgeBase.to_dict(facts)
KbToDict(facts) ==
    IF IsNoneFacts(facts) THEN EmptyDict
    ELSE [ disease_uri  |-> facts.uri,
           disease_name |-> facts.label,
           pathogen     |-> facts.pathogen,
           symptoms     |-> facts.symptoms,
           treatments   |-> facts.treatments,
           conditions   |-> facts.conditions,
           plant_parts  |-> facts.plant_parts,
           hosts        |-> facts.hosts,
           notes        |-> facts.notes ]

(***************************************************************************)
(* WheatReasoner.reason                                                    *)
(***************************************************************************)

\* LOW_CONFIDENCE_THRESHOLD = 0.7, in thousandths.
LOW_CONFIDENCE_THRESHOLD == 700

\* The literals of `clip_confidence >= 0.7` and `clip_confidence >= 0.4`.
HighRiskCutoff == 700

MediumRiskCutoff == 400

\* text_symptoms: None, or a list of strings.
NoneList == [isNone |-> TRUE, list |-> <<>>]

SomeList(l) == [isNone |-> FALSE, list |-> l]

\* Truth value of `text_symptoms`: neither None nor the empty list.
Truthy(text_symptoms) == ~text_symptoms.isNone /\ text_symptoms.list # <<>>

\* ts.lower() in sym.lower() or sym.lower() in ts.lower()
SymptomMatches(ts, sym) ==
    Contains(Lower(ts), Lower(sym)) \/ Contains(Lower(sym), Lower(ts))

\* A mutation of MatchOne: no break, the symptom is appended once for
\* every text symptom it matches.
RECURSIVE MatchOneNoBreak(_, _)
MatchOneNoBreak(sym, text) ==
    IF text = <<>> THEN <<>>
    ELSE IF SymptomMatches(Head(text), sym)
         THEN <<sym>> \o MatchOneNoBreak(sym, Tail(text))
         ELSE MatchOneNoBreak(sym, Tail(text))

\* Inner loop over the text symptoms: what it appends to matched for sym;
\* it stops at the first match.
RECURSIVE MatchOne(_, _)
MatchOne(sym, text) ==
    IF text = <<>> THEN <<>>
    ELSE IF SymptomMatches(Head(text), sym)
         THEN <<sym>>
         ELSE MatchOne(sym, Tail(text))

\* Outer loop over facts_obj.symptoms: the list matched.
RECURSIVE Matched(_, _)
Matched(symptoms, text) ==
    IF symptoms = <<>> THEN <<>>
    ELSE MatchOne(Head(symptoms), text) \o Matched(Tail(symptoms), text)

\* f"{x:.2f}": the value rounded to hundredths (no input of the model lies
\* half-way between two hundredths).
Format2f(x) == IF x % 10 >= 5 THEN (x \div 10) + 1 ELSE x \div 10

\* The trace lines.
MatchLine(text, matched, disease_label) ==
    [ kind |-> "symptoms_match", text_symptoms |-> text,
      matched |-> matched, disease_label |-> disease_label ]

NoMatchLine(text, disease_label) ==
    [ kind |-> "symptoms_no_match", text_symptoms |-> text,
      disease_label |-> disease_label ]

LowConfidenceLine(clip_confidence) ==
    [ kind |-> "low_confidence",
      confidence |-> Format2f(clip_confidence),
      threshold |-> Format2f(LOW_CONFIDENCE_THRESHOLD) ]

\* A mutation of CrossCheckRuns: the test on facts_obj is dropped.
CrossCheckRunsWithoutFacts(text_symptoms, facts_obj) == Truthy(text_symptoms)

\* `if text_symptoms and facts_obj is not None`
CrossCheckRuns(text_symptoms, facts_obj) ==
    Truthy(text_symptoms) /\ ~IsNoneFacts(facts_obj)

\* A mutation of CrossCheck: nothing is appended when no symptom matched.
CrossCheckSilentOnNoMatch(disease_label, text_symptoms, facts_obj) ==
    IF CrossCheckRuns(text_symptoms, facts_obj)
    THEN LET matched == Matched(facts_obj.symptoms, text_symptoms.list)
         IN  IF matched # <<>>
             THEN [ symptom_evidence |-> matched,
                    trace |-> <<MatchLine(text_symptoms.list, matched, disease_label)>> ]
             ELSE [symptom_evidence |-> <<>>, trace |-> <<>>]
    ELSE [symptom_evidence |-> <<>>, trace |-> <<>>]

\* The symptom cross-check: symptom_evidence and the trace after it.  (The
\* symptoms of absent facts are never read by the code; they are taken as
\* empty here.)
CrossCheck(disease_label, text_symptoms, facts_obj) ==
    IF CrossCheckRuns(text_symptoms, facts_obj)
    THEN LET symptoms == IF IsNoneFacts(facts_obj) THEN <<>> ELSE facts_obj.symptoms
             matched == Matched(symptoms, text_symptoms.list)
         IN  IF matched # <<>>
             THEN [ symptom_evidence |-> matched,
                    trace |-> <<MatchLine(text_symptoms.list, matched, disease_label)>> ]
             ELSE [ symptom_evidence |-> <<>>,
                    trace |-> <<NoMatchLine(text_symptoms.list, disease_label)>> ]
    ELSE [symptom_evidence |-> <<>>, trace |-> <<>>]

\* A mutation of RiskLevel: the tiers exclude their lower bound.
RiskLevelExclusive(clip_confidence) ==
    IF clip_confidence > HighRiskCutoff THEN "High"
    ELSE IF clip_confidence > MediumRiskCutoff THEN "Medium"
    ELSE "Low"

\* Risk level based on confidence only.
RiskLevel(clip_confidence) ==
    IF clip_confidence >= HighRiskCutoff THEN "High"
    ELSE IF clip_confidence >= MediumRiskCutoff THEN "Medium"
    ELSE "Low"

\* A mutation of IsLowConfidence: the threshold itself counts as low.
IsLowConfidenceInclusive(clip_confidence) ==
    clip_confidence <= LOW_CONFIDENCE_THRESHOLD

\* is_low_confidence = clip_confidence < LOW_CONFIDENCE_THRESHOLD
IsLowConfidence(clip_confidence) == clip_confidence < LOW_CONFIDENCE_THRESHOLD

\* `if is_low_confidence: explanation_trace.append(...)`
TraceWithLowConfidence(trace, clip_confidence) ==
    IF IsLowConfidence(clip_confidence)
    THEN Append(trace, LowConfidenceLine(clip_confidence))
    ELSE trace

\* reason(disease_label, clip_confidence, text_symptoms)
Reason(disease_label, clip_confidence, text_symptoms) ==
    LET facts_obj == GetDiseaseFacts(disease_label)
        facts_dict == KbToDict(facts_obj)
        check == CrossCheck(disease_label, text_symptoms, facts_obj)
    IN  [ called            |-> TRUE,
          disease_label     |-> disease_label,
          clip_confidence   |-> clip_confidence,
          risk_level        |-> RiskLevel(clip_confidence),
          is_low_confidence |-> IsLowConfidence(clip_confidence),
          facts             |-> facts_dict,
          symptom_evidence  |-> check.symptom_evidence,
          explanation_trace |->
              TraceWithLowConfidence(check.trace, clip_confidence) ]

(***************************************************************************)
(* WheatReasoner.to_dict and llm_interface                                 *)
(***************************************************************************)

\* The fields of the dataclass ReasoningResult.
ReasoningResultFields ==
    {"disease_label", "clip_confidence", "risk_level", "is_low_confidence",
     "facts", "symptom_evidence", "explanation_trace"}

\* A mutation of ToDict: the trace is left out of the mapping.
ToDictWithoutTrace(r) ==
    [ disease_label     |-> r.disease_label,
      clip_confidence   |-> r.clip_confidence,
      risk_level        |-> r.risk_level,
      is_low_confidence |-> r.is_low_confidence,
      facts             |-> r.facts,
      symptom_evidence  |-> r.symptom_evidence ]

\* dataclasses.asdict(result): a new dict with the seven fields of
\* ReasoningResult, the containers copied.
ToDict(r) ==
    [ disease_label     |-> r.disease_label,
      clip_confidence   |-> r.clip_confidence,
      risk_level        |-> r.risk_level,
      is_low_confidence |-> r.is_low_confidence,
      facts             |-> r.facts,
      symptom_evidence  |-> r.symptom_evidence,
      explanation_trace |-> r.explanation_trace ]

\* ReasoningResult(**d): the generated __init__ takes exactly the seven
\* fields, and raises TypeError on any other set of keywords.
Rebuild(d) ==
    IF DOMAIN d = ReasoningResultFields
    THEN [ called            |-> TRUE,
           disease_label     |-> d.disease_label,
           clip_confidence   |-> d.clip_confidence,
           risk_level        |-> d.risk_level,
           is_low_confidence |-> d.is_low_confidence,
           facts             |-> d.facts,
           symptom_evidence  |-> d.symptom_evidence,
           explanation_trace |-> d.explanation_trace ]
    ELSE [called |-> FALSE, exc |-> "TypeError"]

\* d.get(key, default)
DictGet(d, key, default) == IF key \in DOMAIN d THEN d[key] ELSE default

\* structured_result.get("disease_label") or facts.get("disease_name", ...):
\* a missing or empty label gives way to the name in the facts.
DiseaseNameOf(sr) ==
    IF "disease_label" \in DOMAIN sr /\ sr.disease_label # <<>>
    THEN sr.disease_label
    ELSE DictGet(DictGet(sr, "facts", EmptyDict), "disease_name",
                 "Unknown disease")

\* build_prompt: the values the prompt is made of; the confidence is
\* printed as a percentage with one decimal.
BuildPrompt(sr) ==
    LET facts == DictGet(sr, "facts", EmptyDict)
    IN  [ disease_name  |-> DiseaseNameOf(sr),
          pathogen      |-> DictGet(facts, "pathogen", "Unknown pathogen"),
          clip_conf_pct |-> DictGet(sr, "clip_confidence", 0),
          risk_level    |-> DictGet(sr, "risk_level", "Unknown"),
          treatments    |-> DictGet(facts, "treatments", <<>>) ]

\* One part of the template per non-empty list of the facts.
ListPart(facts, key) ==
    IF DictGet(facts, key, <<>>) # <<>>
    THEN << [part |-> key, value |-> facts[key]] >>
    ELSE <<>>

\* template_fallback: the parts of the text, in order; the first is always
\* there.
TemplateFallback(sr) ==
    LET facts    == DictGet(sr, "facts", EmptyDict)
        pathogen == DictGet(facts, "pathogen", "Unknown pathogen")
    IN  << [part |-> "diagnosis", value |-> DiseaseNameOf(sr),
            confidence |-> Format2f(DictGet(sr, "clip_confidence", 0))] >>
        \o (IF pathogen \notin {NoneVal, ""}
            THEN << [part |-> "pathogen", value |-> pathogen] >> ELSE <<>>)
        \o ListPart(facts, "plant_parts")
        \o ListPart(facts, "hosts")
        \o ListPart(facts, "conditions")
        \o ListPart(facts, "treatments")

\* No ReasoningResult object.
NoResult == [called |-> FALSE]

\* reasoner.to_dict has not been called.
NotFlattened == [called |-> FALSE, dict |-> EmptyDict, rebuilt |-> NoResult]

\* No image was uploaded.
NoImage == [isNone |-> TRUE, wheat_prob |-> 0, non_wheat_prob |-> 0]

\* An image, with the largest probability CLIP gives it over the wheat
\* descriptions and over the other descriptions, in thousandths.
ImageWith(wp, nwp) == [isNone |-> FALSE, wheat_prob |-> wp, non_wheat_prob |-> nwp]

\* The literal "Healthy".
Healthy == <<"H", "e", "a", "l", "t", "h", "y">>

\* A pipeline that returned nothing.
NoReturn == [error |-> NoneVal]

\* A request to run_pipeline that has not run: the image, the text, and
\* the label and score CLIP would rank first for the image.
Request(image, symptom_text, prediction) ==
    [called |-> FALSE, image |-> image, symptom_text |-> symptom_text,
     prediction |-> prediction, calls |-> <<>>, ret |-> NoReturn]

\* run_pipeline has not been called.
NotRun == Request(NoImage, <<>>, [label |-> Healthy, score |-> 0])

\* config.DISEASE_LABELS = None at import, and no store built for it.
NoCache == [list |-> NoneList, constructions |-> 0]

\* No treatment triple in the file, and no run of the update script.
NoTreatments == [types |-> {}, labels |-> {}, hasTreatment |-> {}, runs |-> 0]

\* The components around the store and the explanation have not run.
RestIdle ==
    /\ flattened = NotFlattened
    /\ pipeline = NotRun
    /\ DISEASE_LABELS = NoCache
    /\ treatment_graph = NoTreatments

\* The state of an LLM provider: its package is missing, its API key is not
\* set, its API call raises, or its API call answers.
ProviderStates == {"no_package", "no_key", "api_error", "ok"}

\* Neither package is installed.
NoLlm == [groq |-> "no_package", openai |-> "no_package"]

\* No text was returned.
NoReport == [source |-> NoneVal]

\* generate_explanation has not been called.
NotExplained ==
    [called |-> FALSE, calls |-> <<>>, api_calls |-> <<>>,
     raised |-> NoneVal, report |-> NoReport]

\* A provider call: RuntimeError before any API call when the package or
\* the key is missing, else one API call, which raises or answers.
CallChat(provider, state, prompt) ==
    [ api_calls |-> IF state \in {"api_error", "ok"} THEN <<provider>> ELSE <<>>,
      exc       |-> CASE state = "ok" -> NoneVal
                      [] state = "api_error" -> "APIError"
                      [] OTHER -> "RuntimeError",
      content   |-> [source |-> provider, prompt |-> prompt] ]

\* call_groq_chat(prompt)
CallGroqChat(env, prompt) == CallChat("groq", env.groq, prompt)

\* call_openai_chat(prompt)
CallOpenaiChat(env, prompt) == CallChat("openai", env.openai, prompt)

\* A mutation of GenerateExplanation: no template, the failure of the
\* second provider reaches the caller.
GenerateExplanationNoTemplate(env, sr) ==
    LET prompt == BuildPrompt(sr)
        g == CallGroqChat(env, prompt)
        o == CallOpenaiChat(env, prompt)
    IN  IF g.exc = NoneVal
        THEN [called |-> TRUE, calls |-> <<"call_groq_chat">>,
              api_calls |-> g.api_calls, raised |-> NoneVal,
              report |-> g.content]
        ELSE [called |-> TRUE,
              calls |-> <<"call_groq_chat", "call_openai_chat">>,
              api_calls |-> g.api_calls \o o.api_calls,
              raised |-> o.exc,
              report |-> IF o.exc = NoneVal THEN o.content ELSE NoReport]

\* generate_explanation(structured_result): the functions it called, the
\* API calls made, the exception that left it and the text it returned.
GenerateExplanation(env, sr) ==
    LET prompt == BuildPrompt(sr)
        g == CallGroqChat(env, prompt)
        o == CallOpenaiChat(env, prompt)
    IN  IF g.exc = NoneVal
        THEN [called |-> TRUE, calls |-> <<"call_groq_chat">>,
              api_calls |-> g.api_calls, raised |-> NoneVal,
              report |-> g.content]
        ELSE IF o.exc = NoneVal
        THEN [called |-> TRUE,
              calls |-> <<"call_groq_chat", "call_openai_chat">>,
              api_calls |-> g.api_calls \o o.api_calls, raised |-> NoneVal,
              report |-> o.content]
        ELSE [called |-> TRUE,
              calls |-> <<"call_groq_chat", "call_openai_chat",
                          "template_fallback">>,
              api_calls |-> g.api_calls \o o.api_calls, raised |-> NoneVal,
              report |-> [source |-> "template",
                          parts |-> TemplateFallback(sr)]]

(***************************************************************************)
(* nlp_symptom_extractor, clip_model.is_wheat_image and main.run_pipeline  *)
(***************************************************************************)

\* The keyword list, in the alphabet of the model: "ab", "b".
KEYWORDS == << <<"a", "b">>, <<"b">> >>

\* text[:n]
Truncate(text, n) == SubSeq(text, 1, IF Len(text) < n THEN Len(text) ELSE n)

\* list(dict.fromkeys(found)): the first occurrence of each, in order.
RECURSIVE UniqueInOrder(_)
UniqueInOrder(found) ==
    IF found = <<>> THEN <<>>
    ELSE LET init == UniqueInOrder(SubSeq(found, 1, Len(found) - 1))
             last == found[Len(found)]
         IN  IF \E i \in DOMAIN init : init[i] = last
             THEN init ELSE Append(init, last)

\* [kw for kw in KEYWORDS if kw in text_l]
RECURSIVE KeywordsFrom(_, _)
KeywordsFrom(k, text_l) ==
    IF k > Len(KEYWORDS) THEN <<>>
    ELSE IF Contains(text_l, KEYWORDS[k])
         THEN <<KEYWORDS[k]>> \o KeywordsFrom(k + 1, text_l)
         ELSE KeywordsFrom(k + 1, text_l)

\* extract_symptoms(text)
ExtractSymptoms(text) ==
    IF text = <<>> THEN <<>>
    ELSE LET found == KeywordsFrom(1, Lower(text))
         IN  UniqueInOrder(
                 IF Strip(text) # <<>>
                 THEN Append(found, Truncate(Strip(text), 120))
                 ELSE found)

\* is_wheat_image(image) with the default threshold 0.3
IsWheatImage(image) ==
    [is_wheat   |-> image.wheat_prob > 300
                    /\ image.wheat_prob > image.non_wheat_prob,
     confidence |-> image.wheat_prob]

\* The end of run_pipeline, from extract_symptoms to the full result.
Diagnose(req, env, calls, clip_label, clip_conf, all_scores, wheat) ==
    LET text_symptoms == ExtractSymptoms(req.symptom_text)
        reasoning_dict ==
            ToDict(Reason(clip_label, clip_conf, SomeList(text_symptoms)))
        explanation == GenerateExplanation(env, reasoning_dict)
    IN  [req EXCEPT
           !.called = TRUE,
           !.calls = calls \o <<"extract_symptoms", "reason", "to_dict",
                                "generate_explanation">>,
           !.ret = [clip_label       |-> clip_label,
                    clip_confidence  |-> clip_conf,
                    clip_scores      |-> all_scores,
                    text_symptoms    |-> text_symptoms,
                    reasoning        |-> reasoning_dict,
                    llm_explanation  |-> explanation.report,
                    is_wheat         |-> wheat.is_wheat,
                    wheat_confidence |-> wheat.confidence]]

\* The result returned for an image that is not wheat.
NotWheat(req, calls, wheat) ==
    [req EXCEPT
       !.called = TRUE,
       !.calls = calls,
       !.ret = [error |-> "not_wheat",
                wheat_confidence |-> wheat.confidence,
                message |-> "does not appear to be wheat-related"]]

\* A mutation of RunPipeline: the image is classified whatever the wheat
\* check says.
RunPipelineNoEarlyReturn(req, env) ==
    LET loaded == <<"load_kb_and_reasoner", "load_clip_model">>
        wheat  == IsWheatImage(req.image)
    IN  IF req.image.isNone
        THEN Diagnose(req, env, loaded, Healthy, 0, <<>>,
                      [is_wheat |-> TRUE, confidence |-> 0])
        ELSE Diagnose(req, env, loaded \o <<"is_wheat_image", "predict">>,
                      req.prediction.label, req.prediction.score,
                      <<req.prediction>>, wheat)

\* run_pipeline(image, symptom_text): the functions it called, in order,
\* and the dict it returned.
RunPipeline(req, env) ==
    LET loaded == <<"load_kb_and_reasoner", "load_clip_model">>
        wheat  == IsWheatImage(req.image)
    IN  IF req.image.isNone
        THEN Diagnose(req, env, loaded, Healthy, 0, <<>>,
                      [is_wheat |-> TRUE, confidence |-> 0])
        ELSE IF ~wheat.is_wheat
        THEN NotWheat(req, loaded \o <<"is_wheat_image">>, wheat)
        ELSE Diagnose(req, env, loaded \o <<"is_wheat_image", "predict">>,
                      req.prediction.label, req.prediction.score,
                      <<req.prediction>>, wheat)

(***************************************************************************)
(* config.get_disease_labels                                               *)
(***************************************************************************)

\* The built-in list: "Healthy" and four names, here "a", "b", "a(b", "ab".
DISEASE_LABELS_FALLBACK ==
    << Healthy, <<"a">>, <<"b">>, <<"a", "(", "b">>, <<"a", "b">> >>

\* "Healthy" in labels
HasHealthy(list) == \E i \in DOMAIN list : list[i] = Healthy

\* A mutation of WithHealthy: "Healthy" is put first whatever the list holds.
WithHealthyAlways(list) == <<Healthy>> \o list

\* ["Healthy"] + labels unless "Healthy" is in labels.
WithHealthy(list) == IF HasHealthy(list) THEN list ELSE <<Healthy>> \o list

\* A mutation of IsCached: the built-in list does not count as loaded.
IsCachedUnlessFallback(cache) ==
    ~cache.list.isNone /\ cache.list.list # DISEASE_LABELS_FALLBACK

\* DISEASE_LABELS is not None
IsCached(cache) == ~cache.list.isNone

(***************************************************************************)
(* update_rdf_with_treatments                                              *)
(***************************************************************************)

\* name.replace(" ", "_") and the removal of "(": the characters of the
\* model's alphabet that normalize_disease_name rewrites.
RECURSIVE ReplaceSpecial(_)
ReplaceSpecial(name) ==
    IF name = <<>> THEN <<>>
    ELSE IF Head(name) = " " THEN <<"_">> \o ReplaceSpecial(Tail(name))
    ELSE IF Head(name) = "(" THEN ReplaceSpecial(Tail(name))
    ELSE <<Head(name)>> \o ReplaceSpecial(Tail(name))

\* while "__" in name: name = name.replace("__", "_")
RECURSIVE CollapseUnderscores(_)
CollapseUnderscores(name) ==
    IF Len(name) < 2 THEN name
    ELSE IF name[1] = "_" /\ name[2] = "_"
         THEN CollapseUnderscores(Tail(name))
         ELSE <<Head(name)>> \o CollapseUnderscores(Tail(name))

\* name.strip("_")
RECURSIVE StripUnderscores(_)
StripUnderscores(name) ==
    IF name = <<>> THEN <<>>
    ELSE IF Head(name) = "_" THEN StripUnderscores(Tail(name))
    ELSE IF name[Len(name)] = "_"
         THEN StripUnderscores(SubSeq(name, 1, Len(name) - 1))
         ELSE name

\* normalize_disease_name(name)
NormalizeDiseaseName(name) ==
    StripUnderscores(CollapseUnderscores(ReplaceSpecial(name)))

\* get_disease_uri_from_label(graph, disease_label): the exact, base-name
\* and partial steps over the Disease-typed entities.
GetDiseaseUriFromLabel(disease_label) ==
    LET label_lower == Norm(disease_label)
        r1 == Step1Exact(label_lower)
        r2 == Step2Base(label_lower)
    IN  IF r1 # NoneVal THEN r1
        ELSE IF r2 # NoneVal THEN r2
        ELSE Step3Partial(label_lower)

\* WHEAT[normalize_disease_name(disease_name) + "_Treatment_" + str(n)]
TreatmentId(disease_name, n) ==
    [base |-> NormalizeDiseaseName(disease_name), n |-> n]

\* The treatments linked to a disease by hasTreatment.
TreatmentsOf(g, disease_uri) ==
    {h[2] : h \in {l \in g.hasTreatment : l[1] = disease_uri}}

\* The labels of a treatment.
TreatmentLabels(g, tr_uri) ==
    {p[2] : p \in {q \in g.labels : q[1] = tr_uri}}

\* The values the flag `existing` can end with: graph.value gives one of
\* the labels of a treatment, any of them when it has several.
ExistingOutcomes(g, disease_uri, treatment_text) ==
    {b \in BOOLEAN :
        IF b
        THEN \E tr \in TreatmentsOf(g, disease_uri) :
                treatment_text \in TreatmentLabels(g, tr)
        ELSE \A tr \in TreatmentsOf(g, disease_uri) :
                TreatmentLabels(g, tr) \ {treatment_text} # {}
                \/ TreatmentLabels(g, tr) = {}}

\* The body of the loop over treatment_list for one text: the graphs and
\* counters it can leave.
AddOne(st, disease_uri, disease_name, treatment_text) ==
    LET treatment_uri == TreatmentId(disease_name, st.added + 1)
    IN  {IF existing THEN st
         ELSE [g |-> [st.g EXCEPT
                        !.types = @ \cup {treatment_uri},
                        !.labels = @ \cup {<<treatment_uri, treatment_text>>},
                        !.hasTreatment = @ \cup {<<disease_uri, treatment_uri>>}],
               added |-> st.added + 1] :
         existing \in ExistingOutcomes(st.g, disease_uri, treatment_text)}

\* for treatment_text in treatment_list
RECURSIVE AddAll(_, _, _, _)
AddAll(S, disease_uri, disease_name, treatment_list) ==
    IF treatment_list = <<>> THEN S
    ELSE AddAll(UNION {AddOne(st, disease_uri, disease_name,
                              Head(treatment_list)) : st \in S},
                disease_uri, disease_name, Tail(treatment_list))

\* for row in reader: rows without a name, without treatments or of a
\* disease that is not found are skipped.
RECURSIVE RunRows(_, _)
RunRows(S, rows) ==
    IF rows = <<>> THEN S
    ELSE LET disease_name == Strip(Head(rows).disease_name)
             disease_uri  == GetDiseaseUriFromLabel(disease_name)
         IN  IF \/ disease_name = <<>>
                \/ Head(rows).treatments = <<>>
                \/ disease_uri = NoneVal
             THEN RunRows(S, Tail(rows))
             ELSE RunRows(AddAll(S, disease_uri, disease_name,
                                 Head(rows).treatments), Tail(rows))

(***************************************************************************)
(* The resolver model: any graph of at most MaxLabels label triples, and   *)
(* calls of get_disease_uri_by_label on it.                                *)
(***************************************************************************)

\* No list returned by get_all_disease_labels yet.
NoLabels == [called |-> FALSE, list |-> <<>>]

\* The Turtle file at RDF_FILE that holds a graph.
FileWith(ls, ds, hs) ==
    [exists |-> TRUE, labels |-> ls, diseases |-> ds, hasSymptom |-> hs]

\* No file at RDF_FILE.
NoFile == [exists |-> FALSE]

\* A mutation of Load: an absent file is read as an empty graph.
LoadAbsentAsEmpty(file) ==
    IF ~file.exists
    THEN [exc |-> NoneVal, parse_calls |-> 1, labels |-> <<>>,
          diseases |-> {}, hasSymptom |-> [n \in Nodes |-> <<>>]]
    ELSE [exc |-> NoneVal, parse_calls |-> 1, labels |-> file.labels,
          diseases |-> file.diseases, hasSymptom |-> file.hasSymptom]

\* WheatKnowledgeBase._load on the empty Graph() of __init__: the raise
\* when the path does not exist, else one graph.parse.
Load(file) ==
    IF ~file.exists
    THEN [exc |-> "FileNotFoundError", parse_calls |-> 0, labels |-> <<>>,
          diseases |-> {}, hasSymptom |-> [n \in Nodes |-> <<>>]]
    ELSE [exc |-> NoneVal, parse_calls |-> 1, labels |-> file.labels,
          diseases |-> file.diseases, hasSymptom |-> file.hasSymptom]

\* What a constructor call leaves: the constructor called, the exception
\* that left it, whether the caller holds a store and a reasoner object,
\* and the number of calls of exists() and of graph.parse.
Constructed(call, loaded) ==
    [call |-> call, exc |-> loaded.exc, kb |-> loaded.exc = NoneVal,
     reasoner |-> call = "WheatReasoner" /\ loaded.exc = NoneVal,
     exists_calls |-> 1, parse_calls |-> loaded.parse_calls]

\* No constructor has been called.
NotStarted ==
    [call |-> NoneVal, exc |-> NoneVal, kb |-> FALSE, reasoner |-> FALSE,
     exists_calls |-> 0, parse_calls |-> 0]

\* The other components have not run: the graph was loaded from its file
\* by WheatReasoner(), and nothing else was called.
AuxIdle ==
    /\ ret_labels = NoLabels
    /\ ttl_file = FileWith(labels, diseases, hasSymptom)
    /\ startup = Constructed("WheatReasoner", Load(ttl_file))
    /\ llm_env = NoLlm
    /\ explained = NotExplained
    /\ RestIdle

LabelTriples == [uri : Entities, label : LabelPool]

\* A graph is a set of triples: no triple occurs twice in the iteration.
NoRepeat(seq) == \A i, j \in DOMAIN seq : seq[i] = seq[j] => i = j

SeqsUpTo(S, n) == UNION {[1..k -> S] : k \in 0..n}

Init ==
    /\ labels \in {s \in SeqsUpTo(LabelTriples, MaxLabels) : NoRepeat(s)}
    /\ diseases \in SUBSET Entities
    /\ hasSymptom = [n \in Nodes |-> <<>>]
    /\ op = "init"
    /\ arg_label = <<>>
    /\ arg_confidence = 0
    /\ arg_text_symptoms = NoneList
    /\ ret_uri = NoneVal
    /\ result = NoResult
    /\ AuxIdle

\* A call kb.get_disease_uri_by_label(label) with a label of the pool.
LookupIn(pool) ==
    \E label \in pool :
        /\ op' = "get_disease_uri_by_label"
        /\ arg_label' = label
        /\ ret_uri' = GetDiseaseUriByLabel(label)
        /\ UNCHANGED <<labels, diseases, hasSymptom, arg_confidence,
                       arg_text_symptoms, result, aux>>

Lookup == LookupIn(QueryPool)

Next == Lookup

Spec == Init /\ [][Next]_vars

(***************************************************************************)
(* The reasoner model: reason is a function of the graph and its           *)
(* arguments, so the initial states draw a graph (one disease node with    *)
(* its labels, typed or not, and labelled symptom nodes) and the arguments *)
(* of one request, and the action applies reason to them.                  *)
(***************************************************************************)

\* The sequences over S in which no element occurs twice.
Arrangements(S) == {s \in SeqsUpTo(S, Cardinality(S)) : NoRepeat(s)}

\* The label triple of a symptom node, if it has one.
SymptomLabelChoices(node) ==
    {<<>>} \cup {<<[uri |-> node, label |-> l]>> :
                    l \in SymptomLabelPool \cup (IF node = "s2" THEN {<<>>} ELSE {})}

TextSymptomLists ==
    {NoneList} \cup {SomeList(l) : l \in SeqsUpTo(TextPool, MaxTextSymptoms)}

InitReason ==
    /\ \E dl \in Arrangements([uri : {"e1"}, label : DiseaseLabelPool]),
          l1 \in SymptomLabelChoices("s1"),
          l2 \in SymptomLabelChoices("s2") :
            labels = dl \o l1 \o l2
    /\ diseases \in SUBSET {"e1"}
    /\ \E hs \in Arrangements(SymptomNodes) :
            hasSymptom = [n \in Nodes |-> IF n = "e1" THEN hs ELSE <<>>]
    /\ op = "init"
    /\ arg_label \in ReasonQueryPool
    /\ arg_confidence \in ConfidencePool
    /\ arg_text_symptoms \in TextSymptomLists
    /\ ret_uri = NoneVal
    /\ result = NoResult
    /\ AuxIdle

\* A call reasoner.reason(disease_label, clip_confidence, text_symptoms).
ReasonCall ==
    /\ op' = "reason"
    /\ result' = Reason(arg_label, arg_confidence, arg_text_symptoms)
    /\ UNCHANGED <<labels, diseases, hasSymptom, arg_label, arg_confidence,
                   arg_text_symptoms, ret_uri, aux>>

NextReason == ReasonCall

SpecReason == InitReason /\ [][NextReason]_vars

(***************************************************************************)
(* The label-list model: any graph of the resolver model, and calls of     *)
(* get_all_disease_labels on it.                                           *)
(***************************************************************************)

\* A mutation of LabelsCall: the label triples read are removed from the
\* graph.
LabelsCallConsuming ==
    /\ op' = "get_all_disease_labels"
    /\ ret_labels' = [called |-> TRUE, list |-> GetAllDiseaseLabels]
    /\ labels' = <<>>
    /\ UNCHANGED <<diseases, hasSymptom, arg_label, arg_confidence,
                   arg_text_symptoms, ret_uri, result, ttl_file, startup,
                   llm_env, explained, rest>>

\* A call kb.get_all_disease_labels().
LabelsCall ==
    /\ op' = "get_all_disease_labels"
    /\ ret_labels' = [called |-> TRUE, list |-> GetAllDiseaseLabels]
    /\ UNCHANGED <<labels, diseases, hasSymptom, arg_label, arg_confidence,
                   arg_text_symptoms, ret_uri, result, ttl_file, startup,
                   llm_env, explained, rest>>

NextLabels == LabelsCall

SpecLabels == Init /\ [][NextLabels]_vars

(***************************************************************************)
(* The call-sequence model: a loaded graph and any sequence of calls of    *)
(* get_disease_uri_by_label, get_all_disease_labels and reason (which      *)
(* calls get_disease_facts and to_dict) on it.                             *)
(***************************************************************************)

InitCalls ==
    /\ labels \in Arrangements(CallsTriples)
    /\ diseases \in SUBSET Entities
    /\ hasSymptom = [n \in Nodes |-> <<>>]
    /\ op = "init"
    /\ arg_label = <<>>
    /\ arg_confidence = 0
    /\ arg_text_symptoms = NoneList
    /\ ret_uri = NoneVal
    /\ result = NoResult
    /\ AuxIdle

\* A request reasoner.reason(label, 0.69, []).
ReasonRequest ==
    \E label \in CallsQueryPool :
        /\ op' = "reason"
        /\ arg_label' = label
        /\ arg_confidence' = 690
        /\ arg_text_symptoms' = SomeList(<<>>)
        /\ result' = Reason(label, 690, SomeList(<<>>))
        /\ UNCHANGED <<labels, diseases, hasSymptom, ret_uri, aux>>

NextCalls ==
    \/ LookupIn(CallsQueryPool)
    \/ LabelsCall
    \/ ReasonRequest

SpecCalls == InitCalls /\ [][NextCalls]_vars

(***************************************************************************)
(* The start-up model: the file at RDF_FILE holds a graph or is absent,    *)
(* and WheatKnowledgeBase() or WheatReasoner() is called.                  *)
(***************************************************************************)

InitStartup ==
    /\ ttl_file \in {NoFile}
          \cup {FileWith(ls, ds, [n \in Nodes |-> <<>>]) :
                  ls \in Arrangements(CallsTriples), ds \in SUBSET Entities}
    /\ startup = NotStarted
    /\ labels = <<>>
    /\ diseases = {}
    /\ hasSymptom = [n \in Nodes |-> <<>>]
    /\ op = "init"
    /\ arg_label = <<>>
    /\ arg_confidence = 0
    /\ arg_text_symptoms = NoneList
    /\ ret_uri = NoneVal
    /\ result = NoResult
    /\ ret_labels = NoLabels
    /\ llm_env = NoLlm
    /\ explained = NotExplained
    /\ RestIdle

\* A constructor call on a fresh process: __init__ makes the empty graph
\* and _load fills it or raises.
Construct(call) ==
    /\ startup.call = NoneVal
    /\ LET loaded == Load(ttl_file)
       IN  /\ startup' = Constructed(call, loaded)
           /\ labels' = loaded.labels
           /\ diseases' = loaded.diseases
           /\ hasSymptom' = loaded.hasSymptom
    /\ op' = call
    /\ UNCHANGED <<arg_label, arg_confidence, arg_text_symptoms, ret_uri,
                   result, ret_labels, ttl_file, llm_env, explained, rest>>

\* kb = WheatKnowledgeBase()
NewWheatKnowledgeBase == Construct("WheatKnowledgeBase")

\* WheatReasoner(): self.kb = kb or WheatKnowledgeBase()
NewWheatReasoner == Construct("WheatReasoner")

\* The label list of a store that was built.
StartupLabelsCall ==
    /\ startup.kb
    /\ LabelsCall

NextStartup ==
    \/ NewWheatKnowledgeBase
    \/ NewWheatReasoner
    \/ StartupLabelsCall

SpecStartup == InitStartup /\ [][NextStartup]_vars

(***************************************************************************)
(* The explanation model: a reasoning result over a small graph, the two   *)
(* providers in any state, and calls of generate_explanation.              *)
(***************************************************************************)

InitExplain ==
    /\ labels \in {<<>>, <<[uri |-> "e1", label |-> <<"a">>]>>}
    /\ diseases = {"e1"}
    /\ hasSymptom = [n \in Nodes |-> <<>>]
    /\ op = "init"
    /\ arg_label \in CallsQueryPool \cup {<<>>}
    /\ arg_confidence \in ConfidencePool
    /\ arg_text_symptoms = SomeList(<<>>)
    /\ ret_uri = NoneVal
    /\ result = Reason(arg_label, arg_confidence, arg_text_symptoms)
    /\ ret_labels = NoLabels
    /\ ttl_file = FileWith(labels, diseases, hasSymptom)
    /\ startup = Constructed("WheatReasoner", Load(ttl_file))
    /\ llm_env \in [groq : ProviderStates, openai : ProviderStates]
    /\ explained = NotExplained
    /\ RestIdle

\* A call generate_explanation(reasoner.to_dict(result)).
ExplainCall ==
    /\ op' = "generate_explanation"
    /\ explained' = GenerateExplanation(llm_env, ToDict(result))
    /\ UNCHANGED <<labels, diseases, hasSymptom, arg_label, arg_confidence,
                   arg_text_symptoms, ret_uri, result, ret_labels, ttl_file,
                   startup, llm_env, rest>>

NextExplain == ExplainCall

SpecExplain == InitExplain /\ [][NextExplain]_vars

(***************************************************************************)
(* The flattening model: a reasoning result of the reasoner model at one   *)
(* confidence, flattened by to_dict and rebuilt from the mapping.          *)
(***************************************************************************)

InitToDict ==
    /\ InitReason
    /\ arg_confidence = 699

\* A call reasoner.to_dict(result) on the result of reason.
ToDictCall ==
    /\ result.called
    /\ op' = "to_dict"
    /\ flattened' = [called |-> TRUE, dict |-> ToDict(result),
                     rebuilt |-> NoResult]
    /\ UNCHANGED <<labels, diseases, hasSymptom, arg_label, arg_confidence,
                   arg_text_symptoms, ret_uri, result, ret_labels, ttl_file,
                   startup, llm_env, explained, pipeline, DISEASE_LABELS,
                   treatment_graph>>

\* ReasoningResult(**d) on the mapping to_dict returned.
RebuildCall ==
    /\ flattened.called
    /\ op' = "ReasoningResult"
    /\ flattened' = [flattened EXCEPT !.rebuilt = Rebuild(flattened.dict)]
    /\ UNCHANGED <<labels, diseases, hasSymptom, arg_label, arg_confidence,
                   arg_text_symptoms, ret_uri, result, ret_labels, ttl_file,
                   startup, llm_env, explained, pipeline, DISEASE_LABELS,
                   treatment_graph>>

\* The one reason call that builds the result.
ReasonOnce ==
    /\ ~result.called
    /\ ReasonCall

NextToDict ==
    \/ ReasonOnce
    \/ ToDictCall
    \/ RebuildCall

SpecToDict == InitToDict /\ [][NextToDict]_vars

(***************************************************************************)
(* The pipeline model: a request with or without an image, on a small      *)
(* graph, and run_pipeline on it.                                          *)
(***************************************************************************)

\* Probabilities of the images, in thousandths: 0.1, 0.3, 0.301, 0.5.
ProbPool == {100, 300, 301, 500}

\* The images: none, or one whose two probabilities are at most 1 together.
ImagePool ==
    {NoImage} \cup {ImageWith(pr[1], pr[2]) :
                      pr \in {q \in ProbPool \X ProbPool : q[1] + q[2] <= 1000}}

\* Symptom texts: "", " ", "A", "ab".
SymptomTextPool == { <<>>, <<" ">>, <<"A">>, <<"a", "b">> }

\* What predict ranks first: a label of the call pool at 0.39 or 0.7.
PredictionPool == [label : CallsQueryPool, score : {390, 700}]

\* The provider states of the pipeline model.
PipelineLlmPool ==
    { NoLlm, [groq |-> "ok", openai |-> "ok"],
      [groq |-> "api_error", openai |-> "ok"] }

InitPipeline ==
    /\ labels \in {<<>>, <<[uri |-> "e1", label |-> <<"a">>]>>}
    /\ diseases = {"e1"}
    /\ hasSymptom = [n \in Nodes |-> <<>>]
    /\ op = "init"
    /\ arg_label = <<>>
    /\ arg_confidence = 0
    /\ arg_text_symptoms = NoneList
    /\ ret_uri = NoneVal
    /\ result = NoResult
    /\ ret_labels = NoLabels
    /\ ttl_file = FileWith(labels, diseases, hasSymptom)
    /\ startup = Constructed("WheatReasoner", Load(ttl_file))
    /\ llm_env \in PipelineLlmPool
    /\ explained = NotExplained
    /\ flattened = NotFlattened
    /\ pipeline \in {Request(i, t, p) :
                       i \in ImagePool, t \in SymptomTextPool,
                       p \in PredictionPool}
    /\ DISEASE_LABELS = NoCache
    /\ treatment_graph = NoTreatments

\* A run of run_pipeline on the request.
RunPipelineCall ==
    /\ op' = "run_pipeline"
    /\ pipeline' = RunPipeline([pipeline EXCEPT !.called = FALSE,
                                                !.calls = <<>>,
                                                !.ret = NoReturn], llm_env)
    /\ UNCHANGED <<labels, diseases, hasSymptom, arg_label, arg_confidence,
                   arg_text_symptoms, ret_uri, result, ret_labels, ttl_file,
                   startup, llm_env, explained, flattened, DISEASE_LABELS,
                   treatment_graph>>

NextPipeline == RunPipelineCall

SpecPipeline == InitPipeline /\ [][NextPipeline]_vars

(***************************************************************************)
(* The label-cache model: the file at RDF_FILE is written, replaced or     *)
(* removed at any time, and get_disease_labels is called.                  *)
(***************************************************************************)

\* The label triples of the files: "a" on one node, "Healthy" on the other.
ConfigTriples ==
    { [uri |-> "e1", label |-> <<"a">>], [uri |-> "e2", label |-> Healthy] }

\* The states of the file: absent, or holding one of the graphs.
FilePool ==
    {NoFile} \cup {FileWith(ls, ds, [n \in Nodes |-> <<>>]) :
                     ls \in Arrangements(ConfigTriples), ds \in SUBSET Entities}

InitConfig ==
    /\ ttl_file \in FilePool
    /\ startup = NotStarted
    /\ labels = <<>>
    /\ diseases = {}
    /\ hasSymptom = [n \in Nodes |-> <<>>]
    /\ op = "init"
    /\ arg_label = <<>>
    /\ arg_confidence = 0
    /\ arg_text_symptoms = NoneList
    /\ ret_uri = NoneVal
    /\ result = NoResult
    /\ ret_labels = NoLabels
    /\ llm_env = NoLlm
    /\ explained = NotExplained
    /\ RestIdle

\* The file is written, replaced or removed.
FileChange ==
    /\ ttl_file' \in FilePool \ {ttl_file}
    /\ op' = "file_change"
    /\ UNCHANGED <<labels, diseases, hasSymptom, arg_label, arg_confidence,
                   arg_text_symptoms, ret_uri, result, ret_labels, startup,
                   llm_env, explained, rest>>

\* A call get_disease_labels(): the list of the module variable when it is
\* set; else a store is built and the variable set from its label list, or
\* to the built-in list when building the store raised.
GetDiseaseLabelsCall ==
    /\ op' = "get_disease_labels"
    /\ IF IsCached(DISEASE_LABELS)
       THEN /\ UNCHANGED <<DISEASE_LABELS, labels, diseases, hasSymptom,
                           startup>>
       ELSE LET loaded == Load(ttl_file)
            IN  /\ startup' = Constructed("WheatKnowledgeBase", loaded)
                /\ labels' = loaded.labels
                /\ diseases' = loaded.diseases
                /\ hasSymptom' = loaded.hasSymptom
                /\ DISEASE_LABELS' =
                      [list |-> IF loaded.exc # NoneVal
                                THEN SomeList(DISEASE_LABELS_FALLBACK)
                                ELSE SomeList(WithHealthy(GetAllDiseaseLabels')),
                       constructions |-> DISEASE_LABELS.constructions + 1]
    /\ ret_labels' = [called |-> TRUE, list |-> DISEASE_LABELS'.list.list]
    /\ UNCHANGED <<arg_label, arg_confidence, arg_text_symptoms, ret_uri,
                   result, ttl_file, llm_env, explained, flattened, pipeline,
                   treatment_graph>>

NextConfig ==
    \/ FileChange
    \/ GetDiseaseLabelsCall

SpecConfig == InitConfig /\ [][NextConfig]_vars

(***************************************************************************)
(* The treatment-update model: a graph of two labelled entities, and runs  *)
(* of add_treatments_to_rdf, each on a CSV file of its own.                *)
(***************************************************************************)

\* Disease names of the CSV rows: "a", "a(", "b".
CsvNamePool == { <<"a">>, <<"a", "(">>, <<"b">> }

\* The treatments column of a row, as the list of its pieces.
TreatmentLists ==
    { <<>>, <<"t1">>, <<"t2">>, <<"t1", "t2">>, <<"t1", "t1">> }

\* The CSV files: at most MaxRows rows.
CsvPool ==
    SeqsUpTo([disease_name : CsvNamePool, treatments : TreatmentLists], MaxRows)

InitTreatments ==
    /\ labels = << [uri |-> "e1", label |-> <<"a">>],
                   [uri |-> "e2", label |-> <<"b">>] >>
    /\ diseases \in SUBSET Entities
    /\ hasSymptom = [n \in Nodes |-> <<>>]
    /\ op = "init"
    /\ arg_label = <<>>
    /\ arg_confidence = 0
    /\ arg_text_symptoms = NoneList
    /\ ret_uri = NoneVal
    /\ result = NoResult
    /\ AuxIdle

\* A run of add_treatments_to_rdf on a CSV file: the graph is parsed, the
\* rows are gone through with the counter from 0, and the graph is written
\* back when something was added.
AddTreatmentsToRdf ==
    /\ treatment_graph.runs < MaxRuns
    /\ \E csv \in CsvPool :
         \E out \in RunRows({[g |-> treatment_graph, added |-> 0]}, csv) :
            treatment_graph' =
                IF out.added > 0
                THEN [out.g EXCEPT !.runs = @ + 1]
                ELSE [treatment_graph EXCEPT !.runs = @ + 1]
    /\ op' = "add_treatments_to_rdf"
    /\ UNCHANGED <<labels, diseases, hasSymptom, arg_label, arg_confidence,
                   arg_text_symptoms, ret_uri, result, ret_labels, ttl_file,
                   startup, llm_env, explained, flattened, pipeline,
                   DISEASE_LABELS>>

NextTreatments == AddTreatmentsToRdf

SpecTreatments == InitTreatments /\ [][NextTreatments]_vars

(***************************************************************************)
(* Properties of get_disease_uri_by_label                                  *)
(***************************************************************************)

Looked == op = "get_disease_uri_by_label"

\* The normalised query of the last call.
Query == Norm(arg_label)

\* Label i belongs to a Disease-typed node.
Typed(i) == labels[i].uri \in diseases

\* Label i equals the query case-insensitively after trimming.
ExactAt(i) == Norm(labels[i].label) = Query

\* Some Disease-typed label equals the query (the case of step 1).
ExactTypedExists == \E i \in DOMAIN labels : Typed(i) /\ ExactAt(i)

\* Label i has the same base form as the query.
BaseAt(i) == BaseOf(Norm(labels[i].label)) = BaseOf(Query)

\* The query carries a parenthetical part after a non-empty base name.
QueryHasParenPart == BaseOf(Query) # <<>> /\ BaseOf(Query) # Query

\* Step 2 is entered and some Disease-typed label has the query's base form.
BaseTypedExists ==
    QueryHasParenPart /\ \E i \in DOMAIN labels : Typed(i) /\ BaseAt(i)

\* The Disease-typed labels that contain the query or are contained in it.
Hits ==
    {i \in DOMAIN labels :
        /\ Typed(i)
        /\ \/ Contains(Query, Norm(labels[i].label))
           \/ Contains(Norm(labels[i].label), Query)}

\* The length of the contained string of hit i.
HitScore(i) ==
    IF Contains(Query, Norm(labels[i].label))
    THEN Len(Query)
    ELSE Len(Norm(labels[i].label))

MaxScoreHits(H) == {i \in H : \A j \in H : HitScore(j) <= HitScore(i)}

MinOf(S) == CHOOSE i \in S : \A j \in S : i <= j

\* No two nodes carry the same label string.
RawLabelsUnique ==
    \A i, j \in DOMAIN labels :
        labels[i].label = labels[j].label => labels[i].uri = labels[j].uri

\* No two nodes carry labels that are equal after lower-casing and trimming.
NormLabelsUnique ==
    \A i, j \in DOMAIN labels :
        Norm(labels[i].label) = Norm(labels[j].label)
            => labels[i].uri = labels[j].uri

\* The entity that owns a label equal to the query is returned.
ExactOwnerReturned ==
    \A i \in DOMAIN labels : (Typed(i) /\ ExactAt(i)) => ret_uri = labels[i].uri

\* C1 as stated: in a store where no two entities share an identical label
\* string, a lookup by any case or whitespace variant of a label of a
\* Disease-typed entity returns that entity.
C1_ExactLabelRawUnique ==
    (Looked /\ RawLabelsUnique) => ExactOwnerReturned

\* C1 amended: in a store where no two entities have labels that are equal
\* after lower-casing and trimming, a lookup by any case or whitespace
\* variant of a label of a Disease-typed entity returns that entity, also
\* when other entities match by base name or by containment.
C1_ExactLabelNormUnique ==
    (Looked /\ NormLabelsUnique) => ExactOwnerReturned

\* C1 witness: a variant of the label of the second of two Disease-typed
\* entities is looked up, the first entity's label is contained in the
\* query and shares its base name, and the second entity is returned.
C1_Witness ==
    /\ Looked
    /\ NormLabelsUnique
    /\ \E i, j \in DOMAIN labels :
          /\ i < j
          /\ labels[i].uri # labels[j].uri
          /\ Typed(i) /\ Typed(j)
          /\ ExactAt(j)
          /\ arg_label # labels[j].label
          /\ BaseAt(i)
          /\ Contains(Norm(labels[i].label), Query)
          /\ ret_uri = labels[j].uri

\* C2: when no Disease-typed label equals the query and some Disease-typed
\* label has the same non-empty base form as the query, the returned entity
\* has a label with that base form, whichever side carries the
\* parenthetical part.
C2_BaseNameBothDirections ==
    (/\ Looked
     /\ ~ExactTypedExists
     /\ BaseOf(Query) # <<>>
     /\ \E i \in DOMAIN labels : Typed(i) /\ BaseAt(i))
        => \E i \in DOMAIN labels :
              Typed(i) /\ BaseAt(i) /\ ret_uri = labels[i].uri

\* The Disease-typed labels that contain the non-empty query.
Containing ==
    {i \in DOMAIN labels : Typed(i) /\ Contains(Query, Norm(labels[i].label))}

\* Steps 1 and 2 return nothing.
Steps12Nothing == ~ExactTypedExists /\ ~BaseTypedExists

\* C3 as stated: in step 3 the longer label scores higher, so among the
\* labels that contain the query a longest one wins.
C3_LongerLabelWins ==
    (Looked /\ Steps12Nothing /\ Query # <<>> /\ Containing # {})
        => \E i \in Containing :
              /\ \A j \in Containing :
                    Len(Norm(labels[j].label)) <= Len(Norm(labels[i].label))
              /\ ret_uri = labels[i].uri

\* C3 amended: the score of a step-3 hit is the length of the contained
\* (shorter) string, so every label that contains the non-empty query
\* scores the length of the query whatever its own length, and the first of
\* them in the label iteration wins.
C3_ContainedLengthScore ==
    (Looked /\ Steps12Nothing /\ Query # <<>> /\ Containing # {})
        => ret_uri = labels[MinOf(Containing)].uri

\* C3 witness: the query is contained in two labels of different entities,
\* the shorter first, and the first is returned.
C3_Witness ==
    /\ Looked /\ Steps12Nothing /\ Query # <<>>
    /\ \E i, j \in Containing :
          /\ i < j
          /\ labels[i].uri # labels[j].uri
          /\ Len(Norm(labels[i].label)) < Len(Norm(labels[j].label))
          /\ ret_uri = labels[i].uri

\* C4 as stated: when steps 1 and 2 find nothing and some Disease-typed
\* label contains or is contained in the query, the first hit of maximum
\* score is returned.
C4_FirstMaxHitReturned ==
    (Looked /\ Steps12Nothing /\ Hits # {})
        => ret_uri = labels[MinOf(MaxScoreHits(Hits))].uri

\* The hits whose score is above zero.
PositiveHits == {i \in Hits : HitScore(i) > 0}

\* The result of an exact match that ignores the type.
UntypedExact ==
    LET E == {i \in DOMAIN labels : ExactAt(i)}
    IN  IF E = {} THEN NoneVal ELSE labels[MinOf(E)].uri

\* C4 amended: when steps 1 and 2 find nothing, the first hit of maximum
\* score is returned provided that score is above zero; a hit of score 0
\* (an empty query, or an empty label) is never selected, and when no hit
\* scores above zero the result is that of the untyped fallback.
C4_FirstMaxPositiveHitReturned ==
    (Looked /\ Steps12Nothing)
        => IF PositiveHits # {}
           THEN ret_uri = labels[MinOf(MaxScoreHits(PositiveHits))].uri
           ELSE ret_uri = UntypedExact

\* C4 witness: two hits of different entities tie on the maximum score and
\* the earlier one is returned.
C4_Witness ==
    /\ Looked /\ Steps12Nothing
    /\ \E i, j \in MaxScoreHits(PositiveHits) :
          /\ i < j
          /\ labels[i].uri # labels[j].uri
          /\ ret_uri = labels[i].uri

\* A Disease-typed entity is matched by step 1, 2 or 3.
TypedMatched == ExactTypedExists \/ BaseTypedExists \/ PositiveHits # {}

C5_WitnessTyped ==
    /\ Looked
    /\ ~ExactTypedExists
    /\ \E i \in DOMAIN labels : ~Typed(i) /\ ExactAt(i)
    /\ ret_uri \in diseases

(***************************************************************************)
(* Properties of WheatReasoner.reason                                      *)
(***************************************************************************)

Reasoned == op = "reason"

\* No resolver step matches the query: no Disease-typed label is equal to
\* it, shares its base form or overlaps it, and no label at all equals it.
NoEntityMatches == ~TypedMatched /\ UntypedExact = NoneVal

\* The result carries facts of an entity.
FactsResolved == DOMAIN result.facts # {}

SymptomLineKinds == {"symptoms_match", "symptoms_no_match"}

\* The positions of the trace that hold a line of one of the kinds.
LinesOfKind(kinds) ==
    {k \in DOMAIN result.explanation_trace :
        result.explanation_trace[k].kind \in kinds}

\* C6: for a label that no resolver step matches, whatever the confidence
\* and the text symptoms, reason returns a result with empty facts, empty
\* symptom evidence and no symptom trace line, and with a risk level and a
\* low-confidence flag.
C6_UnresolvedDegrades ==
    (Reasoned /\ NoEntityMatches)
        => /\ result.called
           /\ DOMAIN result.facts = {}
           /\ result.symptom_evidence = <<>>
           /\ LinesOfKind(SymptomLineKinds) = {}
           /\ result.risk_level \in {"Low", "Medium", "High"}
           /\ result.is_low_confidence \in BOOLEAN

\* C6 witness: an unresolved label on a non-empty store, with text symptoms
\* supplied and a confidence above 1.
C6_Witness ==
    /\ Reasoned /\ NoEntityMatches
    /\ labels # <<>>
    /\ Truthy(arg_text_symptoms)
    /\ arg_confidence > 1000
    /\ DOMAIN result.facts = {}

\* C7: the risk level is High iff confidence >= 0.7, Medium iff
\* 0.4 <= confidence < 0.7 and Low otherwise, whatever the label, the facts
\* and the text symptoms.
C7_RiskTiers ==
    Reasoned =>
        /\ result.risk_level = "High" <=> arg_confidence >= 700
        /\ result.risk_level = "Medium"
              <=> (arg_confidence >= 400 /\ arg_confidence < 700)
        /\ result.risk_level = "Low" <=> arg_confidence < 400

\* C7 witness: confidence 0.40 on a resolved entity with matching symptoms
\* gives Medium.
C7_Witness ==
    /\ Reasoned
    /\ arg_confidence = 400
    /\ result.risk_level = "Medium"
    /\ FactsResolved
    /\ result.symptom_evidence # <<>>

\* C8: is_low_confidence is true iff confidence < LOW_CONFIDENCE_THRESHOLD;
\* the trace holds the low-confidence line iff the flag is true, once, and
\* as its last line.
C8_LowConfidenceFlag ==
    Reasoned =>
        /\ result.is_low_confidence <=> arg_confidence < LOW_CONFIDENCE_THRESHOLD
        /\ result.is_low_confidence <=> LinesOfKind({"low_confidence"}) # {}
        /\ result.is_low_confidence
              => LinesOfKind({"low_confidence"}) = {Len(result.explanation_trace)}

\* C8 witness: confidence 0.699 is low, and the line follows a symptom line.
C8_Witness ==
    /\ Reasoned
    /\ arg_confidence = 699
    /\ result.is_low_confidence
    /\ Len(result.explanation_trace) = 2
    /\ result.explanation_trace[1].kind \in SymptomLineKinds
    /\ result.explanation_trace[2].kind = "low_confidence"

\* Entity symptom sym matches some supplied text symptom.
MatchesSomeText(sym) ==
    \E k \in DOMAIN arg_text_symptoms.list :
        \/ Contains(Lower(arg_text_symptoms.list[k]), Lower(sym))
        \/ Contains(Lower(sym), Lower(arg_text_symptoms.list[k]))

\* C9: with facts resolved and text symptoms supplied, symptom_evidence is
\* the sequence of the entity's symptoms that contain or are contained in
\* some text symptom, case-insensitively, in the entity's order, each entry
\* once.
C9_SymptomEvidence ==
    (Reasoned /\ FactsResolved /\ Truthy(arg_text_symptoms))
        => /\ result.symptom_evidence
                = SelectSeq(result.facts.symptoms, MatchesSomeText)
           /\ \A k \in DOMAIN result.symptom_evidence :
                 \E m \in DOMAIN result.facts.symptoms :
                    result.facts.symptoms[m] = result.symptom_evidence[k]

\* C9 witness: of two entity symptoms one is matched by two text symptoms
\* and is included once, the other is matched by none and is left out.
C9_Witness ==
    /\ Reasoned /\ FactsResolved /\ Truthy(arg_text_symptoms)
    /\ Len(result.facts.symptoms) = 2
    /\ Len(result.symptom_evidence) = 1
    /\ \E j, k \in DOMAIN arg_text_symptoms.list :
          /\ j # k
          /\ SymptomMatches(arg_text_symptoms.list[j], result.symptom_evidence[1])
          /\ SymptomMatches(arg_text_symptoms.list[k], result.symptom_evidence[1])

\* C10: reason appends one symptom line when text symptoms are supplied and
\* facts are resolved, the positive line iff symptom_evidence is non-empty
\* and the negative line otherwise, and no symptom line when text symptoms
\* are empty or None or nothing is resolved; the trace has at most two
\* lines.
C10_OneSymptomLine ==
    Reasoned =>
        /\ Cardinality(LinesOfKind(SymptomLineKinds))
              = IF Truthy(arg_text_symptoms) /\ FactsResolved THEN 1 ELSE 0
        /\ LinesOfKind({"symptoms_match"}) # {} <=> result.symptom_evidence # <<>>
        /\ LinesOfKind(SymptomLineKinds) \subseteq {1}
        /\ Len(result.explanation_trace) <= 2

\* C10 witness: text symptoms that match no symptom of the resolved entity
\* give the negative line, followed by the low-confidence line.
C10_Witness ==
    /\ Reasoned /\ FactsResolved /\ Truthy(arg_text_symptoms)
    /\ result.facts.symptoms # <<>>
    /\ result.symptom_evidence = <<>>
    /\ Len(result.explanation_trace) = 2
    /\ result.explanation_trace[1].kind = "symptoms_no_match"

(***************************************************************************)
(* Properties of get_all_disease_labels and of the read-only store         *)
(***************************************************************************)

Listed == ret_labels.called

\* The graph is the same after the step.
StoreUnchanged ==
    labels' = labels /\ diseases' = diseases /\ hasSymptom' = hasSymptom

\* The list is in strictly ascending order of Python's string comparison,
\* so it is sorted and holds no string twice.
StrictlyAscending(list) ==
    \A i, j \in DOMAIN list : i < j => StrLess(list[i], list[j])

\* C11: on a loaded store every call of get_all_disease_labels, whatever
\* calls come in between, returns the list the previous call returned and
\* leaves the store as it was; the list is sorted ascending and holds no
\* string twice.
C11_LabelsIdempotentSortedDistinct ==
    /\ [](Listed => StrictlyAscending(ret_labels.list))
    /\ [][(Listed /\ op' = "get_all_disease_labels")
             => ret_labels' = ret_labels]_vars
    /\ [][op' = "get_all_disease_labels" => StoreUnchanged]_vars

\* C11 witness: the list is returned after a lookup that found an entity,
\* and holds once the label that two Disease-typed entities share.
C11_Witness ==
    /\ op = "get_all_disease_labels"
    /\ ret_uri # NoneVal
    /\ Len(ret_labels.list) = 1
    /\ \E i, j \in DOMAIN labels :
          /\ labels[i].uri # labels[j].uri
          /\ labels[i].uri \in diseases /\ labels[j].uri \in diseases
          /\ labels[i].label = labels[j].label
          /\ labels[i].label = ret_labels.list[1]

\* The indices of the label triples of an entity.
LabelIndices(e) == {i \in DOMAIN labels : labels[i].uri = e}

\* The label an entity stands for: its first label without "(" when it has
\* one, else its first label.
Contribution(e) ==
    LET plain == {i \in LabelIndices(e) : NoParen(labels[i].label)}
    IN  IF plain # {} THEN labels[MinOf(plain)].label
        ELSE labels[MinOf(LabelIndices(e))].label

\* The Disease-typed entities that have a label.
LabelledDiseases == {e \in diseases : LabelIndices(e) # {}}

\* C12: the list holds exactly the labels contributed by the Disease-typed
\* entities that have a label, one per entity: a label without "(" if the
\* entity has one, otherwise its first label; other entities contribute
\* nothing.
C12_OnePreferredLabelPerDisease ==
    Listed =>
        /\ SetOf(ret_labels.list) = {Contribution(e) : e \in LabelledDiseases}
        /\ Len(ret_labels.list) <= Cardinality(LabelledDiseases)

\* C12 witness: one Disease-typed entity has a label with parentheses
\* before one without, an untyped entity has a label, and the list is the
\* plain label alone.
C12_Witness ==
    /\ Listed
    /\ \E e \in diseases, i, j \in DOMAIN labels :
          /\ i < j
          /\ labels[i].uri = e /\ labels[j].uri = e
          /\ ~NoParen(labels[i].label)
          /\ NoParen(labels[j].label)
          /\ ret_labels.list = <<labels[j].label>>

\* C13: no call of reason (with get_disease_facts and to_dict in it), of
\* get_disease_uri_by_label or of get_all_disease_labels changes the store,
\* and a request repeated after any other calls gives the result it gave
\* before.
C13_StoreReadOnly ==
    /\ [][StoreUnchanged]_vars
    /\ [][(/\ op' = "reason"
           /\ result.called
           /\ result'.disease_label = result.disease_label
           /\ result'.clip_confidence = result.clip_confidence
           /\ arg_text_symptoms' = arg_text_symptoms)
             => result' = result]_vars
    /\ [][(Listed /\ op' = "get_all_disease_labels")
             => ret_labels' = ret_labels]_vars

\* C13 witness: a request is answered with facts after the label list was
\* read and a lookup found an entity.
C13_Witness ==
    /\ op = "reason"
    /\ Listed
    /\ ret_uri # NoneVal
    /\ DOMAIN result.facts # {}

(***************************************************************************)
(* Properties of the construction of the store                             *)
(***************************************************************************)

\* C14: a constructor called when the file is absent ends with
\* FileNotFoundError after the one exists() test and no parse; the caller
\* holds neither a store nor a reasoner, no triple is in any graph, and
\* nothing can be read from a store afterwards.
C14_AbsentFileFailsBeforeParse ==
    (startup.call # NoneVal /\ ~ttl_file.exists) =>
        /\ startup.exc = "FileNotFoundError"
        /\ startup.parse_calls = 0
        /\ startup.exists_calls = 1
        /\ ~startup.kb
        /\ ~startup.reasoner
        /\ labels = <<>> /\ diseases = {}
        /\ ~Listed

\* C14 witness: WheatReasoner() was called with the file absent and ended
\* with the error.
C14_Witness ==
    /\ startup.call = "WheatReasoner"
    /\ ~ttl_file.exists
    /\ startup.exc = "FileNotFoundError"

(***************************************************************************)
(* Properties of generate_explanation                                      *)
(***************************************************************************)

\* The provider's call failed.
Failed(state) == state # "ok"

\* The function is among those generate_explanation called.
Called(f) == \E i \in DOMAIN explained.calls : explained.calls[i] = f

\* C15: generate_explanation calls the Groq function first, the OpenAI
\* function exactly when the Groq call failed, and the template exactly
\* when both failed; in every state of the two providers it returns a
\* report of the first source that did not fail, raises nothing, and makes
\* at most one API call per provider.
C15_SourcesInFixedOrder ==
    explained.called =>
        /\ explained.raised = NoneVal
        /\ explained.report # NoReport
        /\ explained.calls[1] = "call_groq_chat"
        /\ NoRepeat(explained.calls)
        /\ NoRepeat(explained.api_calls)
        /\ Called("call_openai_chat") <=> Failed(llm_env.groq)
        /\ Called("template_fallback")
              <=> (Failed(llm_env.groq) /\ Failed(llm_env.openai))
        /\ explained.report.source =
              IF ~Failed(llm_env.groq) THEN "groq"
              ELSE IF ~Failed(llm_env.openai) THEN "openai"
              ELSE "template"
        /\ Called("call_openai_chat") =>
              /\ Len(explained.calls) >= 2
              /\ explained.calls[2] = "call_openai_chat"

\* C15 witness: the Groq API call raised, the OpenAI key is missing, and
\* the template was returned.
C15_Witness ==
    /\ explained.called
    /\ llm_env.groq = "api_error"
    /\ llm_env.openai = "no_key"
    /\ explained.api_calls = <<"groq">>
    /\ explained.report.source = "template"

(***************************************************************************)
(* Properties of WheatReasoner.to_dict                                     *)
(***************************************************************************)

CallsOf(f) == {i \in DOMAIN pipeline.calls : pipeline.calls[i] = f}

\* The wheat check of the run failed: the largest wheat probability is not
\* above 0.3 or not above the largest of the others.
CheckFailed ==
    /\ ~pipeline.image.isNone
    /\ \/ pipeline.image.wheat_prob <= 300
       \/ pipeline.image.wheat_prob <= pipeline.image.non_wheat_prob

\* C17: in a run with an image the wheat check is called before predict;
\* when the check fails the run returns the not_wheat error and calls none
\* of predict, extract_symptoms, reason, to_dict and generate_explanation;
\* the result has the keys reasoning and llm_explanation exactly when the
\* check passed or no image was given.
C17_WheatCheckGatesPipeline ==
    pipeline.called =>
        /\ ~pipeline.image.isNone => CallsOf("is_wheat_image") # {}
        /\ \A i \in CallsOf("predict") :
              \E j \in CallsOf("is_wheat_image") : j < i
        /\ CheckFailed =>
              /\ DOMAIN pipeline.ret = {"error", "wheat_confidence", "message"}
              /\ pipeline.ret.error = "not_wheat"
              /\ \A f \in {"predict", "extract_symptoms", "reason", "to_dict",
                           "generate_explanation"} : CallsOf(f) = {}
        /\ ("reasoning" \in DOMAIN pipeline.ret) <=> ~CheckFailed
        /\ ("llm_explanation" \in DOMAIN pipeline.ret) <=> ~CheckFailed

\* C17 witness: an image whose largest wheat probability, 0.5, does not
\* exceed that of the others was rejected.
C17_Witness ==
    /\ pipeline.called
    /\ pipeline.image = ImageWith(500, 500)
    /\ pipeline.ret.error = "not_wheat"

(***************************************************************************)
(* Properties of get_disease_labels                                        *)
(***************************************************************************)

\* The step is the first call of get_disease_labels.
FirstLabelsCall == ~Listed /\ op' = "get_disease_labels"

\* C18: every call of get_disease_labels returns the list the first call
\* returned and at most one store is ever built, whatever happens to the
\* file; a first call that finds no file returns the built-in list; a first
\* call that loads the store returns the store's label list, with "Healthy"
\* put in front exactly when the list does not hold it.
C18_LabelListFixedOnFirstCall ==
    /\ [][(Listed /\ op' = "get_disease_labels")
             => /\ ret_labels' = ret_labels
                /\ startup' = startup]_vars
    /\ [](DISEASE_LABELS.constructions <= 1)
    /\ [][(FirstLabelsCall /\ ~ttl_file.exists)
             => ret_labels'.list = DISEASE_LABELS_FALLBACK]_vars
    /\ [][(FirstLabelsCall /\ ttl_file.exists)
             => LET stored == GetAllDiseaseLabels'
                    got    == ret_labels'.list
                IN  /\ HasHealthy(got)
                    /\ HasHealthy(stored) => got = stored
                    /\ ~HasHealthy(stored) =>
                          /\ got[1] = Healthy
                          /\ Tail(got) = stored]_vars

\* C18 witness: the built-in list is returned by a later call although the
\* file is there by then.
C18_Witness ==
    /\ op = "get_disease_labels"
    /\ ret_labels.list = DISEASE_LABELS_FALLBACK
    /\ ttl_file.exists
    /\ DISEASE_LABELS.constructions = 1

\* C18 witness of the loaded list: a store without "Healthy" gave a list
\* that starts with it.
C18_WitnessLoaded ==
    /\ op = "get_disease_labels"
    /\ startup.kb
    /\ ret_labels.list = <<Healthy, <<"a">>>>

(***************************************************************************)
(* Properties of add_treatments_to_rdf                                     *)
(***************************************************************************)

\* The treatments some disease is linked to.
LinkedTreatments == {h[2] : h \in treatment_graph.hasTreatment}

\* C19: after any runs of add_treatments_to_rdf every linked treatment has
\* exactly one label, and no disease is linked to two treatments with the
\* same text.
C19_OneLabelPerTreatment ==
    /\ \A tr \in LinkedTreatments :
          Cardinality(TreatmentLabels(treatment_graph, tr)) = 1
    /\ \A h1, h2 \in treatment_graph.hasTreatment :
          (h1[1] = h2[1] /\ h1[2] # h2[2]) =>
              TreatmentLabels(treatment_graph, h1[2])
                  \cap TreatmentLabels(treatment_graph, h2[2]) = {}

\* After one run on a graph without treatments every linked treatment has
\* exactly one label.
C19_OneLabelAfterFirstRun ==
    treatment_graph.runs <= 1 =>
        \A tr \in LinkedTreatments :
            Cardinality(TreatmentLabels(treatment_graph, tr)) = 1

(***************************************************************************)
(* Properties of get_disease_uri_by_label on blank queries                 *)
(***************************************************************************)

\* The query of the lookup is empty or only whitespace.
BlankQuery == Looked /\ Strip(arg_label) = <<>>

\* C20 as stated: a blank query resolves to nothing, or to an entity that
\* has an empty label.
C20_BlankQueryNeedsEmptyLabel ==
    (BlankQuery /\ ret_uri # NoneVal) =>
        \E i \in DOMAIN labels :
            labels[i].uri = ret_uri /\ labels[i].label = <<>>

\* C20: a blank query resolves to nothing, or to an entity that has a label
\* which is empty once stripped; on a store whose labels all have a
\* character other than whitespace it returns none.
C20_BlankQueryNeedsBlankLabel ==
    /\ (BlankQuery /\ ret_uri # NoneVal) =>
          \E i \in DOMAIN labels :
              labels[i].uri = ret_uri /\ Strip(labels[i].label) = <<>>
    /\ (BlankQuery /\ \A i \in DOMAIN labels : Strip(labels[i].label) # <<>>)
          => ret_uri = NoneVal

\* C20 witness: the query " " on a store with two labelled Disease-typed
\* entities, no label blank, returned none.
C20_Witness ==
    /\ Looked
    /\ arg_label = <<" ">>
    /\ ret_uri = NoneVal
    /\ Len(labels) = 2
    /\ \A i \in DOMAIN labels :
          labels[i].uri \in diseases /\ Strip(labels[i].label) # <<>>

====
